---- MODULE Spec2Model ----
(***************************************************************************)
(* Provider registry, per-provider health record and failover orchestrator *)
(* of backend/llm_manager.py (EmergentProvider, LLMManager).               *)
(*                                                                         *)
(* The program runs on one asyncio event loop: code between two awaits is  *)
(* atomic, and the only await of LLMManager.generate_content is the vendor *)
(* call inside EmergentProvider.generate_content.  An action of this       *)
(* module is therefore one such atomic block.  Python strings are TLA+     *)
(* strings, str.lower / str.upper / "in" are computed character by         *)
(* character.                                                              *)
(***************************************************************************)
EXTENDS Integers, Sequences, FiniteSets, Bags, TLC

\* ---------------------------------------------------------------- bounds
\* number of generate_content invocations that may be in progress at once
MaxInvocations == 3
\* cap on the sum of all request_count fields (vendor calls started)
MaxRequests == 5
\* cap on the clock read by datetime.now()
MaxTime == 1
\* only environments whose registry has at most this many providers
MaxProviders == 3
\* number of handler runs with a user-scoped provider in progress at once
MaxHandlers == 1
\* cap on the number of temporary attachment files on disk
MaxFiles == 3
\* the server is started only in environments whose registry has at most
\* this many providers
MaxServerProviders == 2

\* ------------------------------------------------------- python strings
UpperAlpha == "ABCDEFGHIJKLMNOPQRSTUVWXYZ"
LowerAlpha == "abcdefghijklmnopqrstuvwxyz"

CharAt(s, i) == SubSeq(s, i, i)

\* character -> character tables of str.lower and str.upper
ToLower == [c \in {CharAt(UpperAlpha, i) : i \in 1..Len(UpperAlpha)} |->
              CharAt(LowerAlpha, CHOOSE i \in 1..Len(UpperAlpha) : CharAt(UpperAlpha, i) = c)]
ToUpper == [c \in {CharAt(LowerAlpha, i) : i \in 1..Len(LowerAlpha)} |->
              CharAt(UpperAlpha, CHOOSE i \in 1..Len(LowerAlpha) : CharAt(LowerAlpha, i) = c)]

MapChar(c, table) == IF c \in DOMAIN table THEN table[c] ELSE c

RECURSIVE MapStr(_, _)
MapStr(s, table) ==
    IF Len(s) = 0 THEN ""
    ELSE MapChar(CharAt(s, 1), table) \o MapStr(SubSeq(s, 2, Len(s)), table)

\* str.lower()
lower(s) == MapStr(s, ToLower)
\* str.upper()
upper(s) == MapStr(s, ToUpper)

\* needle in hay
Contains(needle, hay) ==
    \E i \in 1..(Len(hay) - Len(needle) + 1) :
        SubSeq(hay, i, i + Len(needle) - 1) = needle

\* Python's None where a string is expected, and where a time is expected
None == "<None>"
NoTime == -1

\* a mutation of Truthy: `is not None` in place of the truth value
IsNotNone(s) == s # None

\* truth value of an Optional[str]
Truthy(s) == s # None /\ s # ""

\* ------------------------------------------------------- ProviderStatus
ACTIVE == "active"
INACTIVE == "inactive"
ERROR == "error"
RATE_LIMITED == "rate_limited"
ProviderStatus == {ACTIVE, INACTIVE, ERROR, RATE_LIMITED}

\* ---------------------------------------------------------- environment
EnvKeys == {"OPENAI_API_KEY", "ANTHROPIC_API_KEY", "GEMINI_API_KEY"}
\* values a vendor secret can have in the environment: unset, empty, set
SystemSecret == "sk-sys"
SecretValues == {None, "", SystemSecret}

VARIABLES
    EMERGENT_AVAILABLE,  \* the import of emergentintegrations succeeded
    environ,             \* os.environ restricted to the vendor secrets
    providers,           \* LLMManager.providers: sequence of provider records
    now,                 \* the clock behind datetime.now()
    inv,                 \* bag of the generate_content invocations in progress
    outcomes,            \* history: per provider, the outcomes recorded so far
    peak,                \* history: per provider, most attempts in flight at once
    snapshot,            \* the mapping get_provider_status returned last
    users_db,            \* server.py: the current user's stored gemini_api_key
    handlers,            \* bag of the handler runs that own a user-scoped provider
    tempfiles,           \* number of temporary attachment files on disk
    created              \* what create_user_provider did when it was called last

vars == <<EMERGENT_AVAILABLE, environ, providers, now, inv, outcomes, peak, snapshot,
          users_db, handlers, tempfiles, created>>

\* the state of server.py and of the user-scoped providers
server == <<users_db, handlers, tempfiles, created>>

\* os.environ.get(key)
EnvGet(env, key) == IF key \in DOMAIN env THEN env[key] ELSE None

\* ------------------------------------------------------ EmergentProvider
\* EmergentProvider.__init__
NewProvider(name, provider_key, model, api_key, env, available) ==
    LET key == IF Truthy(api_key) THEN api_key
               ELSE EnvGet(env, upper(provider_key) \o "_API_KEY")
    IN  [ name              |-> name,
          provider_key      |-> provider_key,
          model             |-> model,
          api_key           |-> key,
          status            |-> IF Truthy(key) /\ available THEN ACTIVE ELSE INACTIVE,
          last_request_time |-> NoTime,
          request_count     |-> 0,
          error_count       |-> 0,
          last_error        |-> None ]

\* a mutation of can_make_request: the status is not looked at
can_make_request_ignores_status(p) == p.api_key # None

\* a mutation of can_make_request: a provider in ERROR is tried again
can_make_request_retries_errors(p) ==
    p.status \in {ACTIVE, ERROR} /\ p.api_key # None


can_make_request(p) == p.status = ACTIVE /\ p.api_key # None

record_request(p, t) ==
    [p EXCEPT !.last_request_time = t, !.request_count = @ + 1]

\* a mutation of record_success: the counters are reset, the status is not
record_success_keeps_status(p) ==
    IF p.status = ERROR
    THEN [p EXCEPT !.error_count = 0, !.last_error = None]
    ELSE p

record_success(p) ==
    IF p.status = ERROR
    THEN [p EXCEPT !.status = ACTIVE, !.error_count = 0, !.last_error = None]
    ELSE p

\* a mutation of record_error: the threshold is compared with the count
\* before the failure is added to it
record_error_threshold_before_count(p, error) ==
    LET n == p.error_count + 1
    IN  [p EXCEPT !.error_count = n,
                  !.last_error = error,
                  !.status = IF p.error_count >= 3 THEN ERROR
                             ELSE IF Contains("rate limit", lower(error)) THEN RATE_LIMITED
                             ELSE @]


\* a mutation of record_error: the rate limit test comes first
record_error_rate_limit_first(p, error) ==
    LET n == p.error_count + 1
    IN  [p EXCEPT !.error_count = n,
                  !.last_error = error,
                  !.status = IF Contains("rate limit", lower(error)) THEN RATE_LIMITED
                             ELSE IF n >= 3 THEN ERROR
                             ELSE @]

\* a mutation of record_error: the message is not lower-cased
record_error_case_sensitive(p, error) ==
    LET n == p.error_count + 1
    IN  [p EXCEPT !.error_count = n,
                  !.last_error = error,
                  !.status = IF n >= 3 THEN ERROR
                             ELSE IF Contains("rate limit", error) THEN RATE_LIMITED
                             ELSE @]

\* a mutation of record_error: nothing is recorded for a provider that is
\* no longer ACTIVE
record_error_only_when_active(p, error) ==
    IF p.status # ACTIVE THEN p
    ELSE LET n == p.error_count + 1
         IN  [p EXCEPT !.error_count = n,
                       !.last_error = error,
                       !.status = IF n >= 3 THEN ERROR
                                  ELSE IF Contains("rate limit", lower(error)) THEN RATE_LIMITED
                                  ELSE @]

record_error(p, error) ==
    LET n == p.error_count + 1
    IN  [p EXCEPT !.error_count = n,
                  !.last_error = error,
                  !.status = IF n >= 3 THEN ERROR
                             ELSE IF Contains("rate limit", lower(error)) THEN RATE_LIMITED
                             ELSE @]

\* -------------------------------------------------------- vendor replies
\* what the awaited chat.send_message can do: return a text (possibly
\* empty) or raise with a message
VendorTexts == {"Analyse", ""}
VendorErrors == {"429 Rate Limit hit"}
VendorReplies ==
    [kind : {"text"}, text : VendorTexts] \cup [kind : {"raise"}, text : VendorErrors]

\* a mutation of Available: the guard of generate_content asks for the
\* library only
AvailableWhenInstalled(p, available) == available


\* EmergentProvider.generate_content up to its await: TRUE when the vendor
\* call is started, FALSE when "Provider ... is not available" is raised
Available(p, available) == can_make_request(p) /\ available

NotAvailableError(p) == "Provider " \o p.name \o " is not available"

\* a mutation of Completion: an empty response is returned like any other
CompletionAcceptsEmpty(p, reply) ==
    IF reply.kind = "text"
    THEN [ok |-> TRUE, value |-> reply.text]
    ELSE [ok |-> FALSE, value |-> p.name \o " API error: " \o reply.text]


\* EmergentProvider.generate_content from its await on: the text returned,
\* or the message of the exception raised
Completion(p, reply) ==
    LET wrap(m) == p.name \o " API error: " \o m
    IN  IF reply.kind = "text"
        THEN IF reply.text # ""
             THEN [ok |-> TRUE, value |-> reply.text]
             ELSE [ok |-> FALSE, value |-> wrap("Empty response from AI service")]
        ELSE [ok |-> FALSE, value |-> wrap(reply.text)]

\* ------------------------------------------------------------ LLMManager
providers_config ==
    << [name |-> "OpenAI GPT-4o",      provider_key |-> "openai",    model |-> "gpt-4o",                     env_key |-> "OPENAI_API_KEY"],
       [name |-> "OpenAI GPT-4o-mini", provider_key |-> "openai",    model |-> "gpt-4o-mini",                env_key |-> "OPENAI_API_KEY"],
       [name |-> "OpenAI O1",          provider_key |-> "openai",    model |-> "o1",                         env_key |-> "OPENAI_API_KEY"],
       [name |-> "OpenAI O1-mini",     provider_key |-> "openai",    model |-> "o1-mini",                    env_key |-> "OPENAI_API_KEY"],
       [name |-> "Claude Sonnet 3.5",  provider_key |-> "anthropic", model |-> "claude-3-5-sonnet-20241022", env_key |-> "ANTHROPIC_API_KEY"],
       [name |-> "Claude Haiku 3.5",   provider_key |-> "anthropic", model |-> "claude-3-5-haiku-20241022",  env_key |-> "ANTHROPIC_API_KEY"],
       [name |-> "Gemini 2.0 Flash",   provider_key |-> "gemini",    model |-> "gemini-2.0-flash",           env_key |-> "GEMINI_API_KEY"],
       [name |-> "Gemini 1.5 Flash",   provider_key |-> "gemini",    model |-> "gemini-1.5-flash",           env_key |-> "GEMINI_API_KEY"],
       [name |-> "Gemini 1.5 Pro",     provider_key |-> "gemini",    model |-> "gemini-1.5-pro",             env_key |-> "GEMINI_API_KEY"] >>

\* a mutation of load_providers: each provider is inserted at the head of
\* the list instead of appended
load_providers_inserts_at_head(env, available) ==
    IF ~available THEN << >>
    ELSE LET system_keys == [k \in EnvKeys |-> EnvGet(env, k)]
             Configured(c) == Truthy(EnvGet(system_keys, c.env_key))
             chosen == SelectSeq(providers_config, Configured)
         IN  [i \in 1..Len(chosen) |->
                LET c == chosen[Len(chosen) + 1 - i]
                IN  NewProvider(c.name, c.provider_key, c.model,
                                system_keys[c.env_key], env, available)]


\* LLMManager.load_providers: the new value of self.providers
load_providers(env, available) ==
    IF ~available THEN << >>
    ELSE LET system_keys == [k \in EnvKeys |-> EnvGet(env, k)]
             Configured(c) == Truthy(EnvGet(system_keys, c.env_key))
             chosen == SelectSeq(providers_config, Configured)
         IN  [i \in 1..Len(chosen) |->
                NewProvider(chosen[i].name, chosen[i].provider_key, chosen[i].model,
                            system_keys[chosen[i].env_key], env, available)]

\* LLMManager.get_provider_status: provider name -> status entry
get_provider_status(provs) ==
    LET names == {provs[i].name : i \in 1..Len(provs)}
        \* a later provider of the same name overwrites an earlier one
        last(n) == CHOOSE i \in 1..Len(provs) :
                      /\ provs[i].name = n
                      /\ \A j \in 1..Len(provs) : provs[j].name = n => j <= i
    IN  [n \in names |->
            [ status           |-> provs[last(n)].status,
              request_count    |-> provs[last(n)].request_count,
              error_count      |-> provs[last(n)].error_count,
              last_error       |-> provs[last(n)].last_error,
              can_make_request |-> can_make_request(provs[last(n)]),
              provider_key     |-> provs[last(n)].provider_key,
              model            |-> provs[last(n)].model ]]

\* the vendors create_user_provider accepts
SupportedVendors == {"openai", "anthropic", "gemini"}

\* the value of `provider` where there is no provider
NoProvider == [name |-> None]

\* a mutation of create_user_provider: the vendor name is not lower-cased
create_user_provider_case_sensitive(provider_name, model, api_key, env, available) ==
    IF provider_name \notin SupportedVendors
    THEN [raised |-> TRUE,
          error |-> "Unsupported provider: " \o provider_name,
          provider |-> NoProvider]
    ELSE [raised |-> FALSE,
          error |-> None,
          provider |-> NewProvider(provider_name \o " (User)", provider_name,
                                   model, api_key, env, available)]


\* LLMManager.create_user_provider: the provider returned, or the ValueError
\* raised
create_user_provider(provider_name, model, api_key, env, available) ==
    LET provider_key == lower(provider_name)
    IN  IF provider_key \notin SupportedVendors
        THEN [raised |-> TRUE,
              error |-> "Unsupported provider: " \o provider_name,
              provider |-> NoProvider]
        ELSE [raised |-> FALSE,
              error |-> None,
              provider |-> NewProvider(provider_name \o " (User)", provider_key,
                                       model, api_key, env, available)]

\* LLMManager._generate_demo_response (the text is abbreviated to its title)
DemoResponse == "DEMO ANALYSIS (No AI providers configured)"
DemoLabel == "Demo Provider"
\* a mutation of AllFailedLabel: the fallback is labelled like a provider
LastProviderLabel == "Gemini 1.5 Pro"

AllFailedLabel == "Demo Provider (All providers failed)"

\* a mutation of Following: the loop skips the provider after a failed one
FollowingSkipsOne(j) == j + 2


\* the for loop's step from one list position to the next
Following(j) == j + 1

\* a mutation of Returned: the vendor key is returned as the label
ReturnedVendorKey(content, p) == <<content, p.provider_key>>

\* `return content, provider.name`
Returned(content, p) == <<content, p.name>>

\* a mutation of FirstEligible: the loop starts over at the head of the list
FirstEligibleFromHead(provs, from) ==
    LET ok == {j \in 1..Len(provs) : can_make_request(provs[j])}
    IN  IF ok = {} THEN 0 ELSE CHOOSE j \in ok : \A h \in ok : j <= h

\* `for provider in self.providers: if not provider.can_make_request():
\* continue`: the first position from `from` on whose provider is not
\* skipped, 0 when the loop runs off the end of the list
FirstEligible(provs, from) ==
    LET ok == {j \in from..Len(provs) : can_make_request(provs[j])}
    IN  IF ok = {} THEN 0 ELSE CHOOSE j \in ok : \A h \in ok : j <= h

\* The for loop of LLMManager.generate_content from list position `from`
\* up to its next await or its end.  Result: the providers after the loop's
\* synchronous part, `at` = the position whose vendor call was started (0:
\* the loop ended), `refused` = the positions whose attempt raised before
\* its await and was recorded as an error.
RECURSIVE Walk(_, _, _, _)
Walk(provs, from, t, available) ==
    LET j == FirstEligible(provs, from)
    IN  IF j = 0 THEN [provs |-> provs, at |-> 0, refused |-> << >>]
        ELSE LET requested == [provs EXCEPT ![j] = record_request(@, t)]
             IN  IF Available(requested[j], available)
                 THEN [provs |-> requested, at |-> j, refused |-> << >>]
                 ELSE LET failed == [requested EXCEPT
                                       ![j] = record_error(@, NotAvailableError(@))]
                          rest == Walk(failed, Following(j), t, available)
                      IN  [rest EXCEPT !.refused = <<j>> \o @]

\* ---------------------------------------------------------- invocations
\* An invocation of LLMManager.generate_content is a record
\*   pc     : "awaiting" (suspended in a vendor call) or "done" (returned)
\*   i      : list position of the loop variable `provider`
\*   log    : history, the attempts this invocation made, in order
\*   result : the pair returned
\* Invocations have no identity of their own, so `inv` is a bag of them.
NoReply == [kind |-> "none", text |-> ""]
NoResult == << >>
NoSnapshot == [taken |-> FALSE, status |-> << >>]

\* sum of request_count over the list
RECURSIVE TotalRequests(_)
TotalRequests(provs) ==
    IF Len(provs) = 0 THEN 0
    ELSE provs[1].request_count + TotalRequests(Tail(provs))

\* number of invocations suspended in the vendor call of provider p
InFlight(v, p) ==
    LET S == {r \in BagToSet(v) : r.pc = "awaiting" /\ r.i = p}
    IN  BagCardinality([r \in S |-> v[r]])

Max(a, b) == IF a >= b THEN a ELSE b

\* the last entry of a log with its outcome filled in
Close(log, res, reply) ==
    [log EXCEPT ![Len(log)] = [@ EXCEPT !.res = res, !.reply = reply]]

\* `created` before create_user_provider was ever called
NoCreated ==
    [called |-> FALSE, provider_name |-> None, api_key |-> None,
     raised |-> FALSE, error |-> None, provider |-> NoProvider]

\* The module-level `llm_manager = LLMManager()`: __init__ calls
\* load_providers on the environment the process was started with, each
\* secret of which has one of the values `secrets`.
Startup(secrets) ==
    /\ EMERGENT_AVAILABLE \in BOOLEAN
    /\ environ \in [EnvKeys -> secrets]
    /\ providers = load_providers(environ, EMERGENT_AVAILABLE)
    /\ Len(providers) <= MaxProviders
    /\ now = 0
    /\ inv = EmptyBag
    /\ outcomes = [p \in 1..Len(providers) |-> << >>]
    /\ peak = [p \in 1..Len(providers) |-> 0]
    /\ snapshot = NoSnapshot
    /\ users_db = None
    /\ handlers = EmptyBag
    /\ tempfiles = 0
    /\ created = NoCreated

\* every secret is either unset or set
Init == Startup({None, SystemSecret})
\* a secret may also be set to the empty string
InitAnyEnv == Startup(SecretValues)

\* the environments the server is started in
InitServer == Init /\ Len(providers) <= MaxServerProviders

\* An invocation runs the for loop from position `from` to its next await
\* (or to the return after the loop), starting from providers `provs`, its
\* log `log` and the recorded outcomes `outc`; `others` are the other
\* invocations in progress.
Proceed(others, provs, log, outc, from) ==
    LET w == Walk(provs, from, now, EMERGENT_AVAILABLE)
        refusals == [n \in 1..Len(w.refused) |->
                        [idx |-> w.refused[n], res |-> "failed", reply |-> NoReply]]
        log1 == log \o refusals
        outc1 == [p \in DOMAIN outc |->
                    IF \E n \in 1..Len(w.refused) : w.refused[n] = p
                    THEN Append(outc[p], "fail") ELSE outc[p]]
        after == IF w.at = 0
                 THEN [pc |-> "done", i |-> Len(provs), log |-> log1,
                       result |-> <<DemoResponse, AllFailedLabel>>]
                 ELSE [pc |-> "awaiting", i |-> w.at,
                       log |-> Append(log1, [idx |-> w.at, res |-> "inflight",
                                             reply |-> NoReply]),
                       result |-> NoResult]
    IN  /\ TotalRequests(w.provs) <= MaxRequests
        /\ providers' = w.provs
        /\ outcomes' = outc1
        /\ inv' = others (+) SetToBag({after})
        /\ peak' = [p \in DOMAIN peak |-> Max(peak[p], InFlight(inv', p))]

\* a mutation of Call: a provider the loop skips is stamped and counted
\* like one it attempts
CallCountsSkipped ==
    /\ BagCardinality(inv) < MaxInvocations
    /\ IF Len(providers) = 0
       THEN /\ inv' = inv (+) SetToBag({[pc |-> "done", i |-> 0, log |-> << >>,
                                         result |-> <<DemoResponse, DemoLabel>>]})
            /\ UNCHANGED <<providers, outcomes, peak>>
       ELSE Proceed(inv,
                    [p \in DOMAIN providers |->
                        IF can_make_request(providers[p]) THEN providers[p]
                        ELSE record_request(providers[p], now)],
                    << >>, outcomes, 1)
    /\ snapshot' = NoSnapshot
    /\ UNCHANGED <<EMERGENT_AVAILABLE, environ, now>>


\* LLMManager.generate_content from its call to its first await or return
Call ==
    /\ BagCardinality(inv) < MaxInvocations
    /\ IF Len(providers) = 0
       THEN /\ inv' = inv (+) SetToBag({[pc |-> "done", i |-> 0, log |-> << >>,
                                         result |-> <<DemoResponse, DemoLabel>>]})
            /\ UNCHANGED <<providers, outcomes, peak>>
       ELSE Proceed(inv, providers, << >>, outcomes, 1)
    /\ snapshot' = NoSnapshot
    /\ UNCHANGED <<EMERGENT_AVAILABLE, environ, now>>

\* the awaited vendor call of invocation r ends with a usable text:
\* record_success and return
AttemptSucceeds(r, reply) ==
    /\ BagIn(r, inv)
    /\ r.pc = "awaiting"
    /\ LET j == r.i
           c == Completion(providers[j], reply)
       IN  /\ c.ok
           /\ providers' = [providers EXCEPT ![j] = record_success(@)]
           /\ outcomes' = [outcomes EXCEPT ![j] = Append(@, "ok")]
           /\ inv' = (inv (-) SetToBag({r})) (+)
                     SetToBag({[pc |-> "done", i |-> j,
                                log |-> Close(r.log, "ok", reply),
                                result |-> Returned(c.value, providers[j])]})
    /\ snapshot' = NoSnapshot
    /\ UNCHANGED <<EMERGENT_AVAILABLE, environ, now, peak>>

\* the awaited vendor call of invocation r ends in an exception:
\* record_error, then the loop goes on to its next await or to its end
AttemptFails(r, reply) ==
    /\ BagIn(r, inv)
    /\ r.pc = "awaiting"
    /\ LET j == r.i
           c == Completion(providers[j], reply)
       IN  /\ ~c.ok
           /\ Proceed(inv (-) SetToBag({r}),
                      [providers EXCEPT ![j] = record_error(@, c.value)],
                      Close(r.log, "failed", reply),
                      [outcomes EXCEPT ![j] = Append(@, "fail")], Following(j))
    /\ snapshot' = NoSnapshot
    /\ UNCHANGED <<EMERGENT_AVAILABLE, environ, now>>

\* the caller of invocation r has taken the returned pair
Return(r) ==
    /\ BagIn(r, inv)
    /\ r.pc = "done"
    /\ inv' = inv (-) SetToBag({r})
    /\ UNCHANGED <<EMERGENT_AVAILABLE, environ, providers, now, outcomes, peak, snapshot>>

\* a mutation of GetProviderStatus: the cooldown expiry check is made at
\* read time, a RATE_LIMITED provider is shown, and made, ACTIVE
GetProviderStatusExpiresCooldown ==
    /\ providers' = [i \in DOMAIN providers |->
                        IF providers[i].status = RATE_LIMITED
                        THEN [providers[i] EXCEPT !.status = ACTIVE]
                        ELSE providers[i]]
    /\ snapshot' = [taken |-> TRUE, status |-> get_provider_status(providers')]
    /\ UNCHANGED <<EMERGENT_AVAILABLE, environ, now, inv, outcomes, peak>>


\* the /llm-status handler: LLMManager.get_provider_status
GetProviderStatus ==
    /\ snapshot' = [taken |-> TRUE, status |-> get_provider_status(providers)]
    /\ UNCHANGED <<EMERGENT_AVAILABLE, environ, providers, now, inv, outcomes, peak>>

\* time passes
Tick ==
    /\ now < MaxTime
    /\ now' = now + 1
    /\ UNCHANGED <<EMERGENT_AVAILABLE, environ, providers, inv, outcomes, peak, snapshot>>

\* ------------------------------------------------------ server handlers
\* what a caller can pass to create_user_provider
VendorNames == {"gemini", "Gemini", "OpenAI", "mistral"}
UserModel == "gemini-1.5-flash"
\* the keys a user can submit: empty, or a secret
UserSecret == "sk-user"
UserSecrets == {"", UserSecret}

\* number of requests the server is serving
InProgress == BagCardinality(inv) + BagCardinality(handlers)

\* A run of save_gemini_api_key or of analyze_file_with_user_keys is a record
\*   kind        : the handler
\*   pc          : "awaiting" (suspended in the vendor call of its provider)
\*                 or "done" (the response is on its way to the client)
\*   key         : the key the provider was created for
\*   provider    : the user-scoped provider of the run
\*   status_code : the HTTP status of the response, 0 while there is none
SAVE == "save_gemini_api_key"
ANALYZE == "analyze_file_with_user_keys"

Handler(kind, pc, key, provider, status_code) ==
    [kind |-> kind, pc |-> pc, key |-> key, provider |-> provider,
     status_code |-> status_code]

\* any caller of LLMManager.create_user_provider
CreateUserProvider(provider_name, api_key) ==
    /\ LET c == create_user_provider(provider_name, UserModel, api_key,
                                     environ, EMERGENT_AVAILABLE)
       IN  created' = [called |-> TRUE, provider_name |-> provider_name,
                       api_key |-> api_key, raised |-> c.raised, error |-> c.error,
                       provider |-> c.provider]
    /\ UNCHANGED <<EMERGENT_AVAILABLE, environ, providers, now, inv, outcomes, peak,
                   snapshot, users_db, handlers, tempfiles>>

\* save_gemini_api_key from its call to the await of the probe, or to its
\* response when the probe raises before it awaits
SaveGeminiApiKey(key) ==
    /\ BagCardinality(handlers) < MaxHandlers
    /\ InProgress < MaxInvocations
    /\ LET c == create_user_provider("gemini", UserModel, key, environ, EMERGENT_AVAILABLE)
           h == IF c.raised THEN Handler(SAVE, "done", key, NoProvider, 500)
                ELSE IF Available(c.provider, EMERGENT_AVAILABLE)
                     THEN Handler(SAVE, "awaiting", key, c.provider, 0)
                     ELSE Handler(SAVE, "done", key, c.provider, 400)
       IN  handlers' = handlers (+) SetToBag({h})
    /\ UNCHANGED <<EMERGENT_AVAILABLE, environ, providers, now, inv, outcomes, peak,
                   snapshot, users_db, tempfiles, created>>

\* save_gemini_api_key from the end of the probe on: the key is stored when
\* the probe returned a text
SaveGeminiApiKeyResumes(h, reply) ==
    /\ BagIn(h, handlers)
    /\ h.kind = SAVE /\ h.pc = "awaiting"
    /\ LET c == Completion(h.provider, reply)
       IN  /\ users_db' = IF c.ok THEN h.key ELSE users_db
           /\ handlers' = (handlers (-) SetToBag({h})) (+)
                           SetToBag({[h EXCEPT !.pc = "done",
                                               !.status_code = IF c.ok THEN 200 ELSE 400]})
    /\ UNCHANGED <<EMERGENT_AVAILABLE, environ, providers, now, inv, outcomes, peak,
                   snapshot, tempfiles, created>>

\* analyze_file_with_user_keys from its call to the await of the generation,
\* or to its response; copy_ok: shutil.copyfileobj did not raise
AnalyzeFileWithUserKeys(copy_ok) ==
    /\ BagCardinality(handlers) < MaxHandlers
    /\ InProgress < MaxInvocations
    /\ IF ~Truthy(users_db)
       THEN /\ handlers' = handlers (+)
                    SetToBag({Handler(ANALYZE, "done", users_db, NoProvider, 400)})
            /\ UNCHANGED tempfiles
       ELSE LET c == create_user_provider("gemini", UserModel, users_db,
                                          environ, EMERGENT_AVAILABLE)
            IN  IF c.raised
                THEN /\ handlers' = handlers (+)
                             SetToBag({Handler(ANALYZE, "done", users_db, NoProvider, 500)})
                     /\ UNCHANGED tempfiles
                ELSE /\ tempfiles < MaxFiles
                     /\ IF ~copy_ok
                        \* the with statement is left before the try
                        \* statement whose finally clause unlinks the file
                        THEN /\ tempfiles' = tempfiles + 1
                             /\ handlers' = handlers (+)
                                     SetToBag({Handler(ANALYZE, "done", users_db, c.provider, 500)})
                        ELSE IF Available(c.provider, EMERGENT_AVAILABLE)
                        THEN /\ tempfiles' = tempfiles + 1
                             /\ handlers' = handlers (+)
                                     SetToBag({Handler(ANALYZE, "awaiting", users_db, c.provider, 0)})
                        \* the provider raises before it awaits: finally
                        ELSE /\ tempfiles' = tempfiles
                             /\ handlers' = handlers (+)
                                     SetToBag({Handler(ANALYZE, "done", users_db, c.provider, 500)})
    /\ UNCHANGED <<EMERGENT_AVAILABLE, environ, providers, now, inv, outcomes, peak,
                   snapshot, users_db, created>>

\* analyze_file_with_user_keys from the end of the generation on: the
\* finally clause unlinks the file
AnalyzeFileWithUserKeysResumes(h, reply) ==
    /\ BagIn(h, handlers)
    /\ h.kind = ANALYZE /\ h.pc = "awaiting"
    /\ LET c == Completion(h.provider, reply)
       IN  handlers' = (handlers (-) SetToBag({h})) (+)
                       SetToBag({[h EXCEPT !.pc = "done",
                                           !.status_code = IF c.ok THEN 200 ELSE 500]})
    /\ tempfiles' = tempfiles - 1
    /\ UNCHANGED <<EMERGENT_AVAILABLE, environ, providers, now, inv, outcomes, peak,
                   snapshot, users_db, created>>

\* the response of the handler run h has been sent
Respond(h) ==
    /\ BagIn(h, handlers)
    /\ h.pc = "done"
    /\ handlers' = handlers (-) SetToBag({h})
    /\ UNCHANGED <<EMERGENT_AVAILABLE, environ, providers, now, inv, outcomes, peak,
                   snapshot, users_db, tempfiles, created>>

\* analyze_file_public from its call to the first await of
\* llm_manager.generate_content, or to its response when the copy raises
AnalyzeFilePublic(copy_ok) ==
    /\ InProgress < MaxInvocations
    /\ tempfiles < MaxFiles
    /\ tempfiles' = tempfiles + 1
    /\ IF copy_ok
       THEN Call
       \* the with statement is left before the try statement whose
       \* finally clause unlinks the file
       ELSE UNCHANGED <<EMERGENT_AVAILABLE, environ, providers, now, inv, outcomes,
                        peak, snapshot>>
    /\ UNCHANGED <<users_db, handlers, created>>

\* analyze_file_public from the return of llm_manager.generate_content on:
\* the finally clause unlinks the file
AnalyzeFilePublicResumes(r) ==
    /\ Return(r)
    /\ tempfiles' = tempfiles - 1
    /\ UNCHANGED <<users_db, handlers, created>>

\* LLMManager() in any environment, whatever the length of its registry
InitAllEnv ==
    /\ EMERGENT_AVAILABLE \in BOOLEAN
    /\ environ \in [EnvKeys -> SecretValues]
    /\ providers = load_providers(environ, EMERGENT_AVAILABLE)
    /\ now = 0
    /\ inv = EmptyBag
    /\ outcomes = [p \in 1..Len(providers) |-> << >>]
    /\ peak = [p \in 1..Len(providers) |-> 0]
    /\ snapshot = NoSnapshot
    /\ users_db = None
    /\ handlers = EmptyBag
    /\ tempfiles = 0
    /\ created = NoCreated

\* LLMManager.load_providers called again: the list is built anew
LoadProviders ==
    /\ providers' = load_providers(environ, EMERGENT_AVAILABLE)
    /\ outcomes' = [p \in 1..Len(providers') |-> << >>]
    /\ peak' = [p \in 1..Len(providers') |-> 0]
    /\ snapshot' = NoSnapshot
    /\ UNCHANGED <<EMERGENT_AVAILABLE, environ, now, inv>>

\* the registry is built, shown and built again
NextLoad ==
    \/ LoadProviders /\ UNCHANGED server
    \/ GetProviderStatus /\ UNCHANGED server
    \/ Tick /\ UNCHANGED server


\* the steps of generate_content invocations
NextCore ==
    \/ Call /\ UNCHANGED server
    \/ \E r \in BagToSet(inv), reply \in VendorReplies :
          AttemptSucceeds(r, reply) /\ UNCHANGED server
    \/ \E r \in BagToSet(inv), reply \in VendorReplies :
          AttemptFails(r, reply) /\ UNCHANGED server
    \/ \E r \in BagToSet(inv) : Return(r) /\ UNCHANGED server

NextStatus ==
    \/ NextCore
    \/ GetProviderStatus /\ UNCHANGED server

Next ==
    \/ NextCore
    \/ GetProviderStatus /\ UNCHANGED server
    \/ Tick /\ UNCHANGED server

\* generate_content called by a caller that calls it again only when the
\* invocation before has returned: no invocation is suspended
CallSequential ==
    /\ \A r \in BagToSet(inv) : r.pc = "done"
    /\ Call

\* the steps of generate_content invocations that do not overlap
NextSequential ==
    \/ CallSequential /\ UNCHANGED server
    \/ \E r \in BagToSet(inv), reply \in VendorReplies :
          AttemptSucceeds(r, reply) /\ UNCHANGED server
    \/ \E r \in BagToSet(inv), reply \in VendorReplies :
          AttemptFails(r, reply) /\ UNCHANGED server
    \/ \E r \in BagToSet(inv) : Return(r) /\ UNCHANGED server

\* the calls of create_user_provider
NextCreate ==
    \E n \in VendorNames, k \in UserSecrets : CreateUserProvider(n, k)

\* the steps of the handlers that own a user-scoped provider
NextUser ==
    \/ \E k \in UserSecrets : SaveGeminiApiKey(k)
    \/ \E h \in BagToSet(handlers), reply \in VendorReplies :
          SaveGeminiApiKeyResumes(h, reply)
    \/ \E ok \in BOOLEAN : AnalyzeFileWithUserKeys(ok)
    \/ \E h \in BagToSet(handlers), reply \in VendorReplies :
          AnalyzeFileWithUserKeysResumes(h, reply)
    \/ \E h \in BagToSet(handlers) : Respond(h)

\* the steps of the three handlers of server.py that generate content
NextServer ==
    \/ \E ok \in BOOLEAN : AnalyzeFilePublic(ok)
    \/ \E r \in BagToSet(inv), reply \in VendorReplies :
          AttemptSucceeds(r, reply) /\ UNCHANGED server
    \/ \E r \in BagToSet(inv), reply \in VendorReplies :
          AttemptFails(r, reply) /\ UNCHANGED server
    \/ \E r \in BagToSet(inv) : AnalyzeFilePublicResumes(r)
    \/ \E k \in UserSecrets : SaveGeminiApiKey(k)
    \/ \E h \in BagToSet(handlers), reply \in VendorReplies :
          SaveGeminiApiKeyResumes(h, reply)
    \/ \E ok \in BOOLEAN : AnalyzeFileWithUserKeys(ok)
    \/ \E h \in BagToSet(handlers), reply \in VendorReplies :
          AnalyzeFileWithUserKeysResumes(h, reply)
    \/ \E h \in BagToSet(handlers) : Respond(h)

\* everything: invocations, the status handler and the clock
Spec == Init /\ [][Next]_vars
\* invocations alone.  No action reads `now` except to store it in
\* last_request_time, which no action reads, and none reads `snapshot`.
SpecCore == Init /\ [][NextCore]_vars
\* invocations and the status handler
SpecStatus == Init /\ [][NextStatus]_vars
\* invocations, over every environment
SpecAnyEnv == InitAnyEnv /\ [][NextCore]_vars
\* the registry, over every environment
SpecLoad == InitAllEnv /\ [][NextLoad]_vars
\* create_user_provider, over every environment
SpecCreate == InitAnyEnv /\ [][NextCreate]_vars
\* the handlers with a user-scoped provider, over every environment
SpecUser == InitAnyEnv /\ [][NextUser]_vars
\* the three handlers that generate content
SpecServer == InitServer /\ [][NextServer]_vars
\* invocations one after the other, the registry never reloaded
SpecSequential == Init /\ [][NextSequential]_vars

\* =================================================================
\* Properties
\* =================================================================
Positions == 1..Len(providers)
Running == BagToSet(inv)

\* the invocation record r is the new state of the invocation that took
\* this step
Stepped(r) == r \in BagToSet(inv') /\ CopiesIn(r, inv') > CopiesIn(r, inv)

\* the provider names of the configuration table
ConfiguredNames == {providers_config[n].name : n \in 1..Len(providers_config)}

\* C1: within one generate_content invocation the attempts are made one
\* after the other in list order: the positions attempted increase
\* strictly (so no provider is attempted twice), every attempt but the
\* last has finished in failure, only the last can be in flight, and the
\* invocation is suspended exactly when its last attempt is in flight, on
\* the provider at its loop position.
SequentialInOrder ==
    \A r \in Running :
        /\ \A a, b \in 1..Len(r.log) : a < b => r.log[a].idx < r.log[b].idx
        /\ \A a \in 1..Len(r.log) : a < Len(r.log) => r.log[a].res = "failed"
        /\ \A a \in 1..Len(r.log) : r.log[a].idx \in Positions
        /\ Cardinality({a \in 1..Len(r.log) : r.log[a].res = "inflight"}) <= 1
        /\ r.pc = "awaiting" <=>
              /\ Len(r.log) > 0
              /\ r.log[Len(r.log)].res = "inflight"
              /\ r.log[Len(r.log)].idx = r.i

\* an invocation that failed on the first two providers of a three
\* provider list and is suspended in the third
SequentialInOrderWitness ==
    \E r \in Running :
        /\ r.pc = "awaiting"
        /\ Len(r.log) = 3
        /\ r.log[1].idx = 1 /\ r.log[2].idx = 2 /\ r.log[3].idx = 3

\* C2: first success wins.  Whenever an invocation takes a step, no
\* provider behind its new loop position is changed by that step; and when
\* the vendor answered its attempt on a provider B with a non-empty text,
\* the invocation has returned (that text, B's name), every earlier attempt
\* of it failed on a provider before B, and it attempted nothing after B.
FirstSuccessWins ==
    [][\A r \in BagToSet(inv') :
          Stepped(r) =>
            /\ \A q \in Positions : q > r.i => providers'[q] = providers[q]
            /\ \A n \in 1..Len(r.log) :
                  (r.log[n].reply.kind = "text" /\ r.log[n].reply.text # "") =>
                    /\ r.pc = "done"
                    /\ r.result = <<r.log[n].reply.text, providers[r.log[n].idx].name>>
                    /\ r.i = r.log[n].idx
                    /\ n = Len(r.log)
                    /\ \A a \in 1..(n - 1) :
                          r.log[a].res = "failed" /\ r.log[a].idx < r.log[n].idx]_vars

\* [A(fails), B(succeeds), C(unused)]: an invocation has returned the
\* second provider's text and name after failing on the first, and the
\* third provider has never been requested
FirstSuccessWinsWitness ==
    \E r \in Running :
        /\ Len(providers) = 3
        /\ r.pc = "done"
        /\ Len(r.log) = 2
        /\ r.log[1].idx = 1 /\ r.log[1].res = "failed"
        /\ r.log[2].idx = 2 /\ r.log[2].res = "ok"
        /\ r.result = <<"Analyse", providers[2].name>>
        /\ providers[3].request_count = 0
        /\ providers[3].last_request_time = NoTime

\* C3: exhaustion.  When the list is not empty and an invocation has
\* returned without any of its attempts succeeding, it has returned the
\* placeholder text under the label "Demo Provider (All providers failed)",
\* a label that is the name of no provider of the list or of the
\* configuration table, and in particular of none that failed.
ExhaustionReturnsPlaceholder ==
    \A r \in Running :
        (/\ r.pc = "done"
         /\ Len(providers) > 0
         /\ \A n \in 1..Len(r.log) : r.log[n].res = "failed") =>
            /\ r.result = <<DemoResponse, "Demo Provider (All providers failed)">>
            /\ r.result[2] \notin ConfiguredNames
            /\ \A q \in Positions : r.result[2] # providers[q].name
            /\ \A n \in 1..Len(r.log) : r.result[2] # providers[r.log[n].idx].name

\* [A(fails), B(fails)]: an invocation has returned after failing on both
\* providers of a two provider list
ExhaustionWitness ==
    \E r \in Running :
        /\ Len(providers) = 2
        /\ r.pc = "done"
        /\ Len(r.log) = 2
        /\ r.log[1].res = "failed" /\ r.log[2].res = "failed"
        /\ providers[1].error_count = 1 /\ providers[2].error_count = 1

\* C4: empty registry.  When every vendor secret is absent (unset or
\* empty) the provider list is empty; and with an empty list no vendor call
\* is ever in flight and every invocation has returned, without an attempt,
\* the placeholder text under the label "Demo Provider".
EmptyRegistryReturnsDemo ==
    /\ (\A k \in EnvKeys : environ[k] \in {None, ""}) => providers = << >>
    /\ providers = << >> =>
          \A r \in Running :
              /\ r.pc = "done"
              /\ r.log = << >>
              /\ r.result = <<DemoResponse, "Demo Provider">>

\* no secret is set, one of them to the empty string, the library is
\* available, and an invocation has returned
EmptyRegistryWitness ==
    /\ EMERGENT_AVAILABLE
    /\ \A k \in EnvKeys : environ[k] \in {None, ""}
    /\ \E k \in EnvKeys : environ[k] = ""
    /\ \E r \in Running : r.pc = "done"

\* the last n outcomes recorded for provider p are all failures
LastAllFailures(p, n) ==
    /\ Len(outcomes[p]) >= n
    /\ \A a \in (Len(outcomes[p]) - n + 1)..Len(outcomes[p]) : outcomes[p][a] = "fail"

\* this step records a failure for provider p
FailureRecorded(p) == outcomes'[p] = Append(outcomes[p], "fail")

\* this step records a success for provider p
SuccessRecorded(p) == outcomes'[p] = Append(outcomes[p], "ok")

\* this step records for provider p a failure of a vendor call whose
\* exception message contains "rate limit" in any letter case
RateLimitFailureRecorded(p) ==
    /\ FailureRecorded(p)
    /\ \E r \in BagToSet(inv') :
          /\ Stepped(r)
          /\ \E n \in 1..Len(r.log) :
                /\ r.log[n].idx = p
                /\ r.log[n].res = "failed"
                /\ r.log[n].reply.kind = "raise"
                /\ Contains("rate limit", lower(r.log[n].reply.text))

\* C5: a provider whose three most recent recorded outcomes are failures,
\* with no success recorded between them, has status ERROR, whatever the
\* failure messages were.
ThreeFailuresGiveError ==
    \A p \in Positions : LastAllFailures(p, 3) => providers[p].status = ERROR

\* three invocations failed on the first provider, each with a rate limit
\* message, and nothing else was recorded for it
ThreeFailuresWitness ==
    /\ Len(providers) > 0
    /\ outcomes[1] = <<"fail", "fail", "fail">>
    /\ providers[1].status = ERROR
    /\ BagCardinality([r \in {x \in Running :
                                 /\ Len(x.log) > 0
                                 /\ x.log[1].idx = 1
                                 /\ x.log[1].res = "failed"
                                 /\ x.log[1].reply.kind = "raise"
                                 /\ Contains("rate limit", lower(x.log[1].reply.text))}
                        |-> inv[r]]) = 3

\* C6: a provider has status ERROR only when its three most recent
\* recorded outcomes are all failures.
ErrorOnlyAfterThreeConsecutive ==
    \A p \in Positions : providers[p].status = ERROR => LastAllFailures(p, 3)

RateLimitCooldown == 1

\* C8: the rate limit block is temporary.  A RATE_LIMITED provider whose
\* last request lies at least the cooldown back is eligible again.
CooldownRestoresEligibility ==
    \A p \in Positions :
        (/\ providers[p].status = RATE_LIMITED
         /\ providers[p].last_request_time # NoTime
         /\ now - providers[p].last_request_time >= RateLimitCooldown) =>
            can_make_request(providers[p])

\* C9: a provider in ERROR is not eligible, no step starts an attempt on
\* it, and a step takes it out of ERROR exactly when the step records a
\* success for it, which makes it ACTIVE.
ErrorClearedOnlyBySuccess ==
    [][\A p \in Positions :
          /\ providers'[p].status = ERROR => ~can_make_request(providers'[p])
          /\ providers[p].status = ERROR =>
                /\ ~can_make_request(providers[p])
                /\ providers'[p].request_count = providers[p].request_count
                /\ providers'[p].status = IF SuccessRecorded(p) THEN ACTIVE ELSE ERROR]_vars

\* a provider went into ERROR on its third failure and a success recorded
\* after that made it ACTIVE again, with its error count and last error reset
ErrorClearedWitness ==
    \E p \in Positions :
        /\ outcomes[p] = <<"fail", "fail", "fail", "ok">>
        /\ providers[p].status = ACTIVE
        /\ providers[p].error_count = 0
        /\ providers[p].last_error = None
        /\ can_make_request(providers[p])

\* C10: no lost updates.  A provider's request_count is the number of
\* attempts started on it (those answered plus those in flight), and as
\* long as no attempt on it succeeded its error_count is the number of
\* attempts on it that failed, however the invocations interleave.
NoLostUpdates ==
    \A p \in Positions :
        /\ providers[p].request_count = Len(outcomes[p]) + InFlight(inv, p)
        /\ (\A a \in 1..Len(outcomes[p]) : outcomes[p][a] = "fail") =>
              providers[p].error_count = Len(outcomes[p])

\* three invocations were suspended in the same provider's vendor call at
\* once and all three attempts have failed
NoLostUpdatesWitness ==
    \E p \in Positions :
        /\ peak[p] = 3
        /\ outcomes[p] = <<"fail", "fail", "fail">>
        /\ InFlight(inv, p) = 0
        /\ providers[p].error_count = 3
        /\ providers[p].request_count = 3

\* C11: get_provider_status is read-only.  A step that returns a mapping
\* changes no provider, no invocation and no history (it starts no vendor
\* call), and the mapping is that of the providers as they are; and as long
\* as no generate_content step has been taken since a mapping was returned,
\* whatever else happened (time passing, a caller taking its result), a
\* second call would return the identical mapping.
StatusIsReadOnly ==
    [][/\ (snapshot'.taken /\ snapshot' # snapshot) =>
             /\ providers' = providers
             /\ inv' = inv
             /\ outcomes' = outcomes /\ peak' = peak
             /\ snapshot'.status = get_provider_status(providers)
       /\ snapshot'.taken => get_provider_status(providers') = snapshot'.status]_vars

\* a mapping was returned that shows a provider with an error, not
\* eligible, next to an untouched one, and time has passed since
StatusIsReadOnlyWitness ==
    /\ snapshot.taken
    /\ now > 0
    /\ \E n, k \in DOMAIN snapshot.status :
          /\ snapshot.status[n].status = RATE_LIMITED
          /\ snapshot.status[n].error_count = 1
          /\ ~snapshot.status[n].can_make_request
          /\ snapshot.status[k].request_count = 0
          /\ snapshot.status[k].can_make_request


\* the handler runs in progress, and those that own a provider
Serving == BagToSet(handlers)
WithProvider == {h \in Serving : h.provider # NoProvider}

\* the provider has no credential
NoCredential(p) == p.api_key \in {None, ""}

\* C12: a provider with no credential, in the registry or user-scoped, is
\* not eligible: can_make_request is false, its status is not ACTIVE, and no
\* vendor call is in flight or was ever started on it, neither by
\* LLMManager.generate_content (no invocation is suspended in it, no request
\* was recorded for it) nor by a handler that calls its generate_content
\* directly (no handler run is suspended in it).
NoCredentialNotEligible ==
    /\ \A p \in Positions :
          NoCredential(providers[p]) =>
            /\ ~can_make_request(providers[p])
            /\ providers[p].status # ACTIVE
            /\ InFlight(inv, p) = 0
            /\ providers[p].request_count = 0
    /\ \A h \in WithProvider :
          NoCredential(h.provider) =>
            /\ ~can_make_request(h.provider)
            /\ h.provider.status # ACTIVE
            /\ h.pc # "awaiting"

\* the library is installed, a user has submitted the empty key while the
\* environment has no Gemini secret: the user-scoped provider has no
\* credential and the probe was refused with status 400, while an invocation
\* is suspended in a registry provider
NoCredentialWitness ==
    /\ EMERGENT_AVAILABLE
    /\ \E h \in WithProvider :
          /\ h.kind = SAVE /\ h.key = ""
          /\ h.provider.api_key = None
          /\ h.provider.status = INACTIVE
          /\ h.pc = "done" /\ h.status_code = 400
    /\ \E r \in Running : r.pc = "awaiting"


\* C13: per-attempt failures are absorbed.  When a step records a failure
\* for provider p, the invocation whose attempt it was has not ended in an
\* exception: p's error_count has grown by exactly one and its last_error
\* is the message of the failure, and the invocation has gone on to the
\* first provider after p that is eligible, whose vendor call it has started
\* (one more request recorded for it), or, when there is none, has returned
\* the "all providers failed" placeholder.
FailuresAbsorbed ==
    [][\A p \in Positions :
          FailureRecorded(p) =>
            \E r \in BagToSet(inv') :
              /\ Stepped(r)
              /\ \E n \in 1..Len(r.log) :
                    /\ r.log[n].idx = p
                    /\ r.log[n].res = "failed"
                    /\ providers'[p].last_error =
                          providers[p].name \o " API error: " \o
                          (IF r.log[n].reply.kind = "raise" THEN r.log[n].reply.text
                           ELSE "Empty response from AI service")
              /\ providers'[p].error_count = providers[p].error_count + 1
              /\ r.pc \in {"awaiting", "done"}
              /\ r.pc = "awaiting" =>
                    /\ r.i > p
                    /\ can_make_request(providers[r.i])
                    /\ \A q \in (p + 1)..(r.i - 1) : ~can_make_request(providers[q])
                    /\ providers'[r.i].request_count = providers[r.i].request_count + 1
              /\ r.pc = "done" =>
                    /\ \A q \in (p + 1)..Len(providers) : ~can_make_request(providers[q])
                    /\ r.result = <<DemoResponse, AllFailedLabel>>]_vars

\* an invocation whose attempt on the first provider failed with the
\* vendor's message has passed over the second provider, which is rate
\* limited, and is suspended in the third
FailuresAbsorbedWitness ==
    /\ Len(providers) = 3
    /\ providers[1].last_error = providers[1].name \o " API error: 429 Rate Limit hit"
    /\ providers[2].status = RATE_LIMITED
    /\ \E r \in Running :
          /\ r.pc = "awaiting" /\ r.i = 3
          /\ Len(r.log) = 2
          /\ r.log[1].idx = 1 /\ r.log[1].res = "failed"
          /\ r.log[2].idx = 3


\* C14: no silent empty response.  An invocation that has returned has
\* returned a pair whose text is not empty; and an attempt the vendor
\* answered with an empty text is a failed attempt, recorded as a failure of
\* its provider, after which the invocation has gone on to another provider
\* or has returned the "all providers failed" placeholder.
NeverEmptyResponse ==
    \A r \in Running :
        /\ r.pc = "done" =>
              /\ Len(r.result) = 2
              /\ r.result[1] # ""
              /\ Len(r.result[1]) > 0
        /\ \A n \in 1..Len(r.log) :
              (r.log[n].reply.kind = "text" /\ r.log[n].reply.text = "") =>
                /\ r.log[n].res = "failed"
                /\ \E a \in 1..Len(outcomes[r.log[n].idx]) :
                      outcomes[r.log[n].idx][a] = "fail"
                /\ \/ n < Len(r.log)
                   \/ r.pc = "done" /\ r.result = <<DemoResponse, AllFailedLabel>>

\* the vendor answered the first provider's attempt with an empty text, the
\* invocation went on and returned the second provider's text; the empty
\* text is stored as the first provider's error
NeverEmptyResponseWitness ==
    \E r \in Running :
        /\ r.pc = "done"
        /\ Len(r.log) = 2
        /\ r.log[1].reply = [kind |-> "text", text |-> ""]
        /\ r.log[2].res = "ok"
        /\ r.result = <<"Analyse", providers[r.log[2].idx].name>>
        /\ providers[r.log[1].idx].last_error =
              providers[r.log[1].idx].name \o " API error: Empty response from AI service"


\* row of the configuration table that declares the provider named n
ConfigRow(n) == CHOOSE k \in 1..Len(providers_config) : providers_config[k].name = n

\* the registry holds the providers of the table in the table's order, each
\* once, each built from its row and from the secret its row names
InTableOrder ==
    /\ \A i \in Positions : providers[i].name \in ConfiguredNames
    /\ \A i, j \in Positions :
          i < j => ConfigRow(providers[i].name) < ConfigRow(providers[j].name)
    /\ \A i \in Positions :
          LET c == providers_config[ConfigRow(providers[i].name)]
          IN  /\ providers[i].provider_key = c.provider_key
              /\ providers[i].model = c.model
              /\ providers[i].api_key = environ[c.env_key]

\* C15 as claimed: the registry contains a declared provider if and only
\* if the secret its row names is set and not empty, in the table's order.
RegistryIffSecret ==
    /\ \A k \in 1..Len(providers_config) :
          (\E i \in Positions : providers[i].name = providers_config[k].name)
             <=> Truthy(EnvGet(environ, providers_config[k].env_key))
    /\ InTableOrder

\* C15 as amended: the registry contains a declared provider if and only
\* if the emergentintegrations library was imported and the secret its row
\* names is set and not empty (without the library the registry is empty),
\* in the table's order, for every combination of unset, empty and set
\* secrets.
RegistryIffSecretAndLibrary ==
    /\ \A k \in 1..Len(providers_config) :
          (\E i \in Positions : providers[i].name = providers_config[k].name)
             <=> (EMERGENT_AVAILABLE /\ Truthy(EnvGet(environ, providers_config[k].env_key)))
    /\ ~EMERGENT_AVAILABLE => providers = << >>
    /\ InTableOrder

\* the OpenAI secret is empty, the other two are set: the registry is the
\* two Anthropic providers followed by the three Gemini providers
RegistryWitness ==
    /\ EMERGENT_AVAILABLE
    /\ environ["OPENAI_API_KEY"] = ""
    /\ Len(providers) = 5
    /\ providers[1].name = "Claude Sonnet 3.5"
    /\ providers[2].name = "Claude Haiku 3.5"
    /\ providers[3].name = "Gemini 2.0 Flash"
    /\ providers[4].name = "Gemini 1.5 Flash"
    /\ providers[5].name = "Gemini 1.5 Pro"
    /\ snapshot.taken


\* create_user_provider was called last for a vendor it supports, with a
\* secret of the caller
SupportedCall ==
    /\ created.called
    /\ created.provider_name \in {"gemini", "Gemini", "OpenAI"}
    /\ created.api_key \notin {None, ""}

\* create_user_provider left the registry alone and returned a provider
\* with the caller's secret and an empty health history
FreshUserProvider ==
    /\ ~created.raised
    /\ created.provider.name = created.provider_name \o " (User)"
    /\ created.provider.api_key = created.api_key
    /\ created.provider.request_count = 0
    /\ created.provider.error_count = 0
    /\ created.provider.last_error = None
    /\ created.provider.last_request_time = NoTime

\* the registry and the health records of its providers are as
\* load_providers left them
RegistryUntouched ==
    /\ providers = load_providers(environ, EMERGENT_AVAILABLE)
    /\ \A p \in Positions :
          /\ providers[p].name \in ConfiguredNames
          /\ providers[p].request_count = 0
          /\ providers[p].error_count = 0

\* an unsupported vendor: ValueError, and no provider
UnsupportedRaises ==
    (created.called /\ created.provider_name = "mistral") =>
        /\ created.raised
        /\ created.error = "Unsupported provider: mistral"
        /\ created.provider = NoProvider

\* C16 as claimed: for a supported vendor and a caller-supplied secret
\* create_user_provider returns a new provider with status ACTIVE and an
\* empty health history, the shared list and its health records stay as
\* they were, and an unsupported vendor gives ValueError and no provider.
UserProviderStartsActive ==
    /\ SupportedCall => (FreshUserProvider /\ created.provider.status = ACTIVE)
    /\ RegistryUntouched
    /\ UnsupportedRaises

\* C16 as amended: the same, but the new provider's status is ACTIVE when
\* the emergentintegrations library was imported and INACTIVE when not.
UserProviderStartsFresh ==
    /\ SupportedCall =>
          /\ FreshUserProvider
          /\ created.provider.status = IF EMERGENT_AVAILABLE THEN ACTIVE ELSE INACTIVE
          /\ can_make_request(created.provider) <=> EMERGENT_AVAILABLE
    /\ RegistryUntouched
    /\ UnsupportedRaises

\* with the Gemini secret of the system set and three Gemini providers in
\* the registry, a provider was created for "Gemini" with the user's secret
UserProviderWitness ==
    /\ EMERGENT_AVAILABLE
    /\ Len(providers) = 3
    /\ environ["GEMINI_API_KEY"] = SystemSecret
    /\ created.called
    /\ created.provider_name = "Gemini"
    /\ created.api_key = UserSecret
    /\ created.provider.provider_key = "gemini"
    /\ created.provider.api_key = UserSecret
    /\ created.provider.status = ACTIVE


\* the handler run h is the new state of the run that took this step
HandlerStepped(h) ==
    h \in BagToSet(handlers') /\ CopiesIn(h, handlers') > CopiesIn(h, handlers)

\* C17: key-save flow.  The stored key changes only in a step in which a
\* run of save_gemini_api_key ends with status 200; a run that ends with
\* status 200 has stored the key it was called with, and the probe that
\* succeeded was made with that key; a run that ends otherwise ends with an
\* error status and leaves the stored key as it was.
KeySavedOnlyAfterProbe ==
    [][/\ users_db' # users_db =>
             \E h \in BagToSet(handlers') :
                 HandlerStepped(h) /\ h.kind = SAVE /\ h.status_code = 200
       /\ \A h \in BagToSet(handlers') :
             (HandlerStepped(h) /\ h.kind = SAVE /\ h.pc = "done") =>
                IF h.status_code = 200
                THEN /\ users_db' = h.key
                     /\ h.provider.api_key = h.key
                ELSE /\ h.status_code \in {400, 500}
                     /\ users_db' = users_db]_vars


\* number of handler runs that have created their temporary file and have
\* not yet returned or raised: the runs of analyze_file_public, each of
\* which is one generate_content invocation, and the runs of
\* analyze_file_with_user_keys suspended in their provider
FileOwners ==
    BagCardinality(inv) +
    BagCardinality([h \in {x \in Serving : x.kind = ANALYZE /\ x.pc = "awaiting"}
                       |-> handlers[h]])

\* C18: the temporary attachment file is deleted on all exit paths.  The
\* temporary files on disk are those of the handler runs still in
\* progress: a run that has returned or raised has left no file behind.
TempFilesDeleted == tempfiles = FileOwners


\* the position an invocation attempted before its last attempt, 0 if none
Before(r) == IF Len(r.log) > 1 THEN r.log[Len(r.log) - 1].idx ELSE 0

\* C19: attempts start on ACTIVE providers only, in every interleaving.  A
\* step that starts an attempt on provider p (one more request recorded
\* for p) starts exactly one, finds p ACTIVE and leaves it ACTIVE, and
\* suspends the invocation in p; the providers the invocation passed over
\* on its way to p were not ACTIVE; and no step starts an attempt on a
\* provider that is INACTIVE, ERROR or RATE_LIMITED, or suspends another
\* invocation in it.
AttemptsOnlyOnActive ==
    [][\A p \in Positions :
          /\ providers'[p].request_count # providers[p].request_count =>
                /\ providers'[p].request_count = providers[p].request_count + 1
                /\ providers[p].status = ACTIVE
                /\ providers'[p].status = ACTIVE
                /\ InFlight(inv', p) > 0
                /\ \E r \in BagToSet(inv') :
                      /\ Stepped(r)
                      /\ r.pc = "awaiting" /\ r.i = p
                      /\ \A q \in (Before(r) + 1)..(p - 1) : providers'[q].status # ACTIVE
          /\ providers[p].status \in {INACTIVE, ERROR, RATE_LIMITED} =>
                /\ providers'[p].request_count = providers[p].request_count
                /\ InFlight(inv', p) <= InFlight(inv, p)]_vars

\* the first provider is rate limited and a later invocation, passing over
\* it, made its first attempt on the second provider
AttemptsOnlyOnActiveWitness ==
    /\ Len(providers) >= 2
    /\ providers[1].status = RATE_LIMITED
    /\ providers[2].status = ACTIVE
    /\ \E r \in Running :
          /\ r.pc = "awaiting" /\ r.i = 2
          /\ Len(r.log) = 1
          /\ r.log[1].idx = 2


\* C20: every attempt is counted before the vendor is called.  While a
\* vendor call is in flight on a provider, through
\* LLMManager.generate_content or directly on a user-scoped provider of a
\* handler run, that provider's last_request_time is set and its
\* request_count counts the call.
RequestsCountedBeforeCall ==
    /\ \A p \in Positions :
          InFlight(inv, p) > 0 =>
            /\ providers[p].last_request_time # NoTime
            /\ providers[p].request_count >= InFlight(inv, p)
    /\ \A h \in WithProvider :
          h.pc = "awaiting" =>
            /\ h.provider.last_request_time # NoTime
            /\ h.provider.request_count >= 1


\* C21: every recorded success resets the provider.  A step that records a
\* success for provider p leaves p with error_count 0 and no last error,
\* whatever p's status was, and takes p from ERROR to ACTIVE.
SuccessResetsErrors ==
    [][\A p \in Positions :
          SuccessRecorded(p) =>
            /\ providers'[p].error_count = 0
            /\ providers'[p].last_error = None
            /\ providers[p].status = ERROR => providers'[p].status = ACTIVE]_vars



\* C22: in every reachable state, however the invocations interleave, a
\* provider of the registry has status ERROR exactly when its error_count
\* is 3 or more; below 3 its status is ACTIVE or RATE_LIMITED.
ErrorIffThreeCounted ==
    \A p \in Positions :
        /\ providers[p].status = ERROR <=> providers[p].error_count >= 3
        /\ providers[p].error_count < 3 => providers[p].status \in {ACTIVE, RATE_LIMITED}
        /\ providers[p].error_count >= 0

\* one provider went into ERROR on its third counted error, another has
\* two counted errors and is rate limited
ErrorIffThreeCountedWitness ==
    \E p, q \in Positions :
        /\ providers[p].error_count = 3
        /\ providers[p].status = ERROR
        /\ providers[q].error_count = 2
        /\ providers[q].status = RATE_LIMITED


\* the list positions whose provider the loop would not skip
Eligible(provs) == {p \in 1..Len(provs) : can_make_request(provs[p])}

\* this step is the call of a new invocation
Called == BagCardinality(inv') > BagCardinality(inv)

\* C23: when the invocations do not overlap and the registry is not
\* reloaded, no step makes a provider ACTIVE that was not, so the set of
\* providers the loop would attempt only shrinks; and once no provider of
\* a non-empty list is in that set, no vendor call is in flight and an
\* invocation called then returns, without an attempt, the placeholder
\* labelled "Demo Provider (All providers failed)".
EligibleOnlyShrinks ==
    [][/\ \A p \in Positions :
             providers[p].status # ACTIVE => providers'[p].status # ACTIVE
       /\ Eligible(providers') \subseteq Eligible(providers)
       /\ (Len(providers) > 0 /\ Eligible(providers) = {}) =>
             /\ \A p \in Positions : InFlight(inv, p) = 0 /\ InFlight(inv', p) = 0
             /\ \A r \in BagToSet(inv') :
                   Stepped(r) =>
                     /\ r.pc = "done"
                     /\ r.log = << >>
                     /\ r.result = <<DemoResponse, "Demo Provider (All providers failed)">>]_vars

\* three invocations one after the other failed on the first provider,
\* which is in ERROR, the first of them went on to fail on the second with
\* a rate limit message, and a fourth invocation has returned the
\* placeholder without an attempt
EligibleOnlyShrinksWitness ==
    /\ Len(providers) = 2
    /\ providers[1].status = ERROR
    /\ providers[2].status = RATE_LIMITED
    /\ outcomes = << <<"fail", "fail", "fail">>, <<"fail">> >>
    /\ peak = <<1, 1>>
    /\ \E r \in Running :
          /\ r.pc = "done"
          /\ r.log = << >>
          /\ r.result = <<DemoResponse, AllFailedLabel>>


\* C24: frame of an invocation that skips every provider.  A call of
\* generate_content on a non-empty list none of whose providers is
\* eligible starts no vendor call, records nothing, leaves every provider
\* as it was (status, request_count, error_count, last_error and
\* last_request_time) and returns the "all providers failed" placeholder.
AllSkippedChangesNothing ==
    [][(Called /\ Len(providers) > 0 /\ Eligible(providers) = {}) =>
          /\ \A p \in Positions :
                /\ providers'[p].status = providers[p].status
                /\ providers'[p].request_count = providers[p].request_count
                /\ providers'[p].error_count = providers[p].error_count
                /\ providers'[p].last_error = providers[p].last_error
                /\ providers'[p].last_request_time = providers[p].last_request_time
                /\ InFlight(inv', p) = InFlight(inv, p)
          /\ providers' = providers
          /\ outcomes' = outcomes
          /\ \E r \in BagToSet(inv') :
                /\ Stepped(r)
                /\ r.pc = "done"
                /\ r.log = << >>
                /\ r.result = <<DemoResponse, AllFailedLabel>>]_vars

\* both providers became rate limited while another attempt on the first
\* was in flight, and an invocation called since has returned the
\* placeholder without an attempt: the first provider still shows two
\* requests and one error, the second one request and one error
AllSkippedWitness ==
    /\ Len(providers) = 2
    /\ providers[1].status = RATE_LIMITED
    /\ providers[1].request_count = 2
    /\ providers[1].error_count = 1
    /\ providers[2].status = RATE_LIMITED
    /\ providers[2].request_count = 1
    /\ providers[2].error_count = 1
    /\ InFlight(inv, 1) = 1
    /\ \E r \in Running :
          /\ r.pc = "done"
          /\ r.log = << >>
          /\ r.result = <<DemoResponse, AllFailedLabel>>


====
